---------------------------- MODULE Spec2Model ----------------------------
(***************************************************************************)
(* A model of matminer_examples/machine_learning-nb/sklearn_pipeline.ipynb *)
(*                                                                         *)
(* The notebook is a linear sequence of statements over a pandas           *)
(* DataFrame `df`, a target vector `y`, a FeatureUnion `featurizer`, two   *)
(* regression Pipelines, a RepeatedKFold splitter and two hyper-parameter  *)
(* searches.  The statements call pandas, matminer and scikit-learn; the   *)
(* operators below give those calls the behaviour of the libraries the     *)
(* notebook imports (cell 1, cell 5):                                      *)
(*   matminer.utils.pipeline.DropExcluded.transform(df)                    *)
(*        = df.drop(self.excluded, axis=1)                                 *)
(*   matminer.utils.pipeline.ItemSelector.transform(df) = df[self.label]   *)
(*   sklearn.pipeline.Pipeline / FeatureUnion, sklearn.model_selection.*   *)
(* Featurization formulas and regression arithmetic are left              *)
(* uninterpreted: a computed cell or model is the term that names what it  *)
(* was computed from.                                                      *)
(***************************************************************************)
EXTENDS Integers, Sequences, FiniteSets, TLC

VARIABLES
    pc,      \* the notebook statement that runs next, "done" or "aborted"
    df,      \* the DataFrame named df
    y,       \* the target vector y
    X,       \* the feature matrix X of cell 9
    pipeline,\* the fitted state of the pipeline object of cells 7 and 8
    parts,   \* X_train, X_test, y_train, y_test of cell 13
    scores,  \* the results of the cross_val_score calls
    gs,      \* the fitted search object gs of cells 14 and 15
    last,    \* the value the last executed statement computed
    out,     \* the lines printed so far
    err,     \* the exception that ended the run, "" while none
    ran,     \* the statements executed so far, in order
    rng,     \* the streams numpy's RandomState gives for the seeds in use
    hD,      \* adapter harness: the dataset an adapter is called on
    hPre,    \* adapter harness: that dataset before the last call
    hCall,   \* adapter harness: the estimator whose transform was called
    hOut     \* adapter harness: what the call returned or raised

nbvars == <<pc, df, y, X, pipeline, parts, scores, gs, last, out, err, ran, rng>>
hvars == <<hD, hPre, hCall, hOut>>
vars == <<pc, df, y, X, pipeline, parts, scores, gs, last, out, err, ran, rng,
          hD, hPre, hCall, hOut>>

(***************************************************************************)
(* Bounds                                                                  *)
(***************************************************************************)
\* rows of the bundled dataset in the model (1181 in the recorded run)
MaxRows == 8
\* columns DensityFeatures, ElementProperty(magpie), OxidationStates produce
KDensity == 2
KElement == 1
KOxid == 1
\* adapter harness: rows and columns of the datasets drawn
HMaxRows == 2
HMaxCols == 2
\* adapter harness: sub-pipelines in a feature union
HMaxParts == 2

(***************************************************************************)
(* Helpers on sequences                                                    *)
(***************************************************************************)
Range(s) == {s[i] : i \in 1..Len(s)}

RECURSIVE SumSeq(_)
SumSeq(s) == IF s = <<>> THEN 0 ELSE Head(s) + SumSeq(Tail(s))

RECURSIVE Flatten(_)
Flatten(ss) == IF ss = <<>> THEN <<>> ELSE Head(ss) \o Flatten(Tail(ss))

\* the subsequence of s whose elements satisfy membership in keep, order kept
RECURSIVE Filter(_, _)
Filter(s, keep) ==
    IF s = <<>> THEN <<>>
    ELSE IF Head(s) \in keep THEN <<Head(s)>> \o Filter(Tail(s), keep)
         ELSE Filter(Tail(s), keep)

Injective(s) == \A i, j \in 1..Len(s) : s[i] = s[j] => i = j

(***************************************************************************)
(* Values: cells, frames, series, arrays                                   *)
(***************************************************************************)
\* the value of field f in the row labelled r
Cell(f, r) == [feat |-> "raw", j |-> 0, src |-> [field |-> f], row |-> r]
\* the j-th value a featurizer or conversion named feat computes from cell c
FeatCell(feat, j, c) == [feat |-> feat, j |-> j, src |-> c, row |-> c.row]

NoneVal == [kind |-> "none"]
Frame(index, cols, data) ==
    [kind |-> "frame", index |-> index, cols |-> cols, data |-> data]
Series(index, name, values) ==
    [kind |-> "series", index |-> index, name |-> name, values |-> values]
\* a 2-D numpy array, row-major
Array(rows) == [kind |-> "array", rows |-> rows]

\* a frame with the given index and columns, every cell its own value
MkFrame(index, cols) ==
    Frame(index, cols,
          [f \in Range(cols) |-> [i \in 1..Len(index) |-> Cell(f, index[i])]])

NRows(v) ==
    CASE v.kind = "frame" -> Len(v.index)
      [] v.kind = "series" -> Len(v.index)
      [] v.kind = "array" -> Len(v.rows)

\* DataFrame.values / np.asarray(frame): the rows, columns in frame order
AsArrayRows(v) ==
    CASE v.kind = "frame" ->
            [i \in 1..Len(v.index) |->
                [c \in 1..Len(v.cols) |-> v.data[v.cols[c]][i]]]
      [] v.kind = "array" -> v.rows

(***************************************************************************)
(* Results of a call: a value or an exception, the argument object as the  *)
(* call left it, and the fit calls made on the way (estimator, target)     *)
(***************************************************************************)
Ok(val, arg) == [tag |-> "ok", val |-> val, err |-> "", arg |-> arg, fits |-> <<>>]
Raise(e, arg) == [tag |-> "raise", val |-> NoneVal, err |-> e, arg |-> arg, fits |-> <<>>]
FitCall(est, yy) == [est |-> est.kind, y |-> yy]

(***************************************************************************)
(* pandas                                                                  *)
(***************************************************************************)
\* DataFrame.drop(labels, axis=1): a new frame; KeyError when a label is
\* not a column (errors='raise' is the default)
Drop(frame, labels) ==
    IF ~(Range(labels) \subseteq Range(frame.cols))
    THEN Raise("KeyError", frame)
    ELSE LET keep == Range(frame.cols) \ Range(labels)
         IN Ok(Frame(frame.index, Filter(frame.cols, keep),
                     [f \in keep |-> frame.data[f]]),
               frame)

\* DataFrame.__getitem__(label): the column as a Series; KeyError when absent
GetItem(frame, label) ==
    IF label \notin Range(frame.cols)
    THEN Raise("KeyError", frame)
    ELSE Ok(Series(frame.index, label, frame.data[label]), frame)

\* Series.to_frame(): the one-column frame holding the series
ToFrame(s) == Frame(s.index, <<s.name>>, [f \in {s.name} |-> s.values])

(***************************************************************************)
(* Estimators                                                              *)
(***************************************************************************)
DropExcluded(excl) == [kind |-> "DropExcluded", excluded |-> excl]
ItemSelector(label) == [kind |-> "ItemSelector", label |-> label]
Featurizer(name, k) == [kind |-> "Featurizer", name |-> name, k |-> k]
Pipeline(steps) == [kind |-> "Pipeline", steps |-> steps]
FeatureUnion(tl) == [kind |-> "FeatureUnion", transformer_list |-> tl]
Step(name, est) == [name |-> name, est |-> est]

\* mutant: the filter inverted, the excluded columns kept and the rest dropped
DropExcluded_transform_inverted(est, frame) ==
    Drop(frame, Filter(frame.cols, Range(frame.cols) \ Range(est.excluded)))

\* mutant: df.drop(..., inplace=True); return df
DropExcluded_transform_inplace(est, frame) ==
    LET r == Drop(frame, est.excluded)
    IN IF r.tag = "raise" THEN r ELSE Ok(r.val, r.val)

\* DropExcluded.transform(df): df.drop(self.excluded, axis=1)
DropExcluded_transform(est, frame) == Drop(frame, est.excluded)

\* mutant: the column taken by position, dataframe.iloc[:, 0]
ItemSelector_transform_first(est, frame) ==
    IF frame.cols = <<>> THEN Raise("KeyError", frame)
    ELSE GetItem(frame, frame.cols[1])

\* mutant: dataframe.get(self.label), None for an absent column
ItemSelector_transform_get(est, frame) ==
    IF est.label \in Range(frame.cols) THEN GetItem(frame, est.label)
    ELSE Ok(NoneVal, frame)

\* ItemSelector.transform(dataframe): dataframe[self.label]
ItemSelector_transform(est, frame) == GetItem(frame, est.label)

\* BaseFeaturizer.transform(X): one row of est.k features per entry of X
Featurizer_transform(est, s) ==
    Ok(Array([i \in 1..Len(s.values) |->
                [j \in 1..est.k |-> FeatCell(est.name, j, s.values[i])]]),
       s)

\* np.hstack of the blocks a feature union collected (n: rows of the input)
HStack(blocks, n) ==
    IF blocks = <<>> THEN Ok(Array([i \in 1..n |-> <<>>]), NoneVal)
    ELSE IF \E b \in 1..Len(blocks) : NRows(blocks[b]) # NRows(blocks[1])
    THEN Raise("ValueError", NoneVal)
    ELSE Ok(Array([i \in 1..NRows(blocks[1]) |->
                    Flatten([b \in 1..Len(blocks) |-> AsArrayRows(blocks[b])[i]])]),
            NoneVal)

RECURSIVE Apply(_, _, _, _), PipelineFrom(_, _, _, _, _, _), UnionFrom(_, _, _, _, _)

\* Pipeline: steps i..last applied in order, each on the output of the one
\* before; when fitting, each step is fit (with the target yy) on its input
\* before it transforms it
PipelineFrom(steps, i, lastStep, Xt, fitting, yy) ==
    IF i > lastStep THEN Ok(Xt, Xt)
    ELSE LET r == Apply(steps[i].est, Xt, fitting, yy)
         IN IF r.tag = "raise" THEN r
            ELSE LET rest == PipelineFrom(steps, i + 1, lastStep, r.val, fitting, yy)
                 IN [tag |-> rest.tag, val |-> rest.val, err |-> rest.err,
                     arg |-> r.arg, fits |-> r.fits \o rest.fits]

\* FeatureUnion, n_jobs=None: each transformer in list order on the same
\* input object; val is the list of their outputs
UnionFrom(tl, i, Xt, fitting, yy) ==
    IF i > Len(tl)
    THEN [tag |-> "ok", val |-> <<>>, err |-> "", arg |-> Xt, fits |-> <<>>]
    ELSE LET r == Apply(tl[i].est, Xt, fitting, yy)
         IN IF r.tag = "raise" THEN r
            ELSE LET rest == UnionFrom(tl, i + 1, r.arg, fitting, yy)
                 IN IF rest.tag = "raise"
                    THEN [rest EXCEPT !.fits = r.fits \o rest.fits]
                    ELSE [tag |-> "ok", val |-> <<r.val>> \o rest.val, err |-> "",
                          arg |-> rest.arg, fits |-> r.fits \o rest.fits]

Reverse(sq) == [i \in 1..Len(sq) |-> sq[Len(sq) + 1 - i]]

\* mutant: the blocks stacked last to first
FeatureUnion_transform_reversed(est, Xt, fitting, yy) ==
    LET u == UnionFrom(est.transformer_list, 1, Xt, fitting, yy)
    IN IF u.tag = "raise" THEN u
       ELSE LET h == HStack(Reverse(u.val), NRows(Xt))
            IN [tag |-> h.tag, val |-> h.val, err |-> h.err,
                arg |-> u.arg, fits |-> u.fits]

\* FeatureUnion.transform / fit_transform: the outputs stacked column-wise
\* in transformer_list order
FeatureUnion_transform(est, Xt, fitting, yy) ==
    LET u == UnionFrom(est.transformer_list, 1, Xt, fitting, yy)
    IN IF u.tag = "raise" THEN u
       ELSE LET h == HStack(u.val, NRows(Xt))
            IN [tag |-> h.tag, val |-> h.val, err |-> h.err,
                arg |-> u.arg, fits |-> u.fits]

\* a stateless transformer: fit(x, y) returns self, then transform
Leaf(r, est, fitting, yy) ==
    IF fitting THEN [r EXCEPT !.fits = <<FitCall(est, yy)>>] ELSE r

Apply(est, Xt, fitting, yy) ==
    CASE est.kind = "DropExcluded" ->
            Leaf(DropExcluded_transform(est, Xt), est, fitting, yy)
      [] est.kind = "ItemSelector" ->
            Leaf(ItemSelector_transform(est, Xt), est, fitting, yy)
      [] est.kind = "Featurizer" ->
            Leaf(Featurizer_transform(est, Xt), est, fitting, yy)
      [] est.kind = "Pipeline" ->
            PipelineFrom(est.steps, 1, Len(est.steps), Xt, fitting, yy)
      [] est.kind = "FeatureUnion" ->
            FeatureUnion_transform(est, Xt, fitting, yy)

Transform(est, Xt) == Apply(est, Xt, FALSE, <<>>)
FitTransform(est, Xt, yy) == Apply(est, Xt, TRUE, yy)

(***************************************************************************)
(* Regressors, uninterpreted: a fitted model names the estimator and the   *)
(* data it was fit on; a prediction or score names the model and the data  *)
(***************************************************************************)
LinearRegression == [kind |-> "LinearRegression"]
RandomForestRegressor(n, seed) ==
    [kind |-> "RandomForestRegressor", n_estimators |-> n, random_state |-> seed]

\* estimator.fit(X, y); X and y must have the same number of samples
Fit(est, Xa, yy) ==
    IF NRows(Xa) # Len(yy) THEN Raise("ValueError", Xa)
    ELSE Ok([kind |-> "fitted", est |-> est, X |-> Xa.rows, y |-> yy], Xa)

Predict(model, Xa) == [kind |-> "predict", model |-> model, X |-> Xa.rows, y |-> <<>>]
Score(model, Xa, yy) == [kind |-> "score", model |-> model, X |-> Xa.rows, y |-> yy]

\* Pipeline.fit(X, y): every step but the last is fit and transforms in
\* order; the last step is fit on the transformed data and the same y
Pipeline_fit(p, Xt, yy) ==
    LET n == Len(p.steps)
        r == PipelineFrom(p.steps, 1, n - 1, Xt, TRUE, yy)
    IN IF r.tag = "raise" THEN r
       ELSE LET f == Fit(p.steps[n].est, r.val, yy)
            IN [tag |-> f.tag, val |-> f.val, err |-> f.err, arg |-> r.arg,
                fits |-> r.fits \o <<FitCall(p.steps[n].est, yy)>>]

\* mutant: the last step predicts on the untransformed input
Pipeline_predict_raw(p, model, Xt) ==
    Ok(Predict(model, Array(AsArrayRows(Xt))), Xt)

\* Pipeline.predict(X): the transforms in order, then the last step's predict
Pipeline_predict(p, model, Xt) ==
    LET r == PipelineFrom(p.steps, 1, Len(p.steps) - 1, Xt, FALSE, <<>>)
    IN IF r.tag = "raise" THEN r ELSE Ok(Predict(model, r.val), r.arg)

\* Pipeline.score(X, y): the transforms in order, then the last step's score
Pipeline_score(p, model, Xt, yy) ==
    LET r == PipelineFrom(p.steps, 1, Len(p.steps) - 1, Xt, FALSE, <<>>)
    IN IF r.tag = "raise" THEN r ELSE Ok(Score(model, r.val, yy), r.arg)

(***************************************************************************)
(* matminer conversions                                                    *)
(***************************************************************************)
StrToComposition == [name |-> "StrToComposition", target |-> "composition"]
CompositionToOxidComposition ==
    [name |-> "CompositionToOxidComposition", target |-> "composition_oxid"]

\* ConversionFeaturizer.featurize_dataframe(df, col_id): the frame with the
\* converted column appended under the conversion's target name
featurize_dataframe(conv, frame, col) ==
    IF col \notin Range(frame.cols) THEN Raise("KeyError", frame)
    ELSE IF conv.target \in Range(frame.cols) THEN Raise("ValueError", frame)
    ELSE Ok(Frame(frame.index, Append(frame.cols, conv.target),
                  [f \in Range(frame.cols) \cup {conv.target} |->
                      IF f = conv.target
                      THEN [i \in 1..Len(frame.index) |->
                              FeatCell(conv.name, 1, frame.data[col][i])]
                      ELSE frame.data[f]]),
            frame)

(***************************************************************************)
(* The notebook's objects                                                  *)
(***************************************************************************)
\* the columns load_elastic_tensor() returns: those the notebook names, and
\* space_group, the one column it leaves in the features
LoadedColumns ==
    <<"material_id", "formula", "nsites", "space_group", "volume", "structure",
      "elastic_anisotropy", "G_Reuss", "G_VRH", "G_Voigt", "K_Reuss", "K_VRH",
      "K_Voigt", "poisson_ratio", "compliance_tensor", "elastic_tensor",
      "elastic_tensor_original">>

\* mutant: "formula" dropped with the unwanted columns
unwanted_columns_formula ==
    <<"volume", "nsites", "compliance_tensor", "elastic_tensor",
      "elastic_tensor_original", "K_Voigt", "G_Voigt", "K_Reuss", "G_Reuss",
      "formula">>

unwanted_columns ==
    <<"volume", "nsites", "compliance_tensor", "elastic_tensor",
      "elastic_tensor_original", "K_Voigt", "G_Voigt", "K_Reuss", "G_Reuss">>

\* mutant: the target left out of the excluded list
excluded_without_K_VRH ==
    <<"G_VRH", "elastic_anisotropy", "formula", "material_id",
      "poisson_ratio", "structure", "composition", "composition_oxid">>

excluded ==
    <<"G_VRH", "K_VRH", "elastic_anisotropy", "formula", "material_id",
      "poisson_ratio", "structure", "composition", "composition_oxid">>

featurizer ==
    FeatureUnion(<<
        Step("drop", DropExcluded(excluded)),
        Step("density", Pipeline(<<
            Step("select", ItemSelector("structure")),
            Step("density_feat", Featurizer("DensityFeatures", KDensity))>>)),
        Step("element", Pipeline(<<
            Step("select", ItemSelector("composition")),
            Step("oxidation_feat", Featurizer("ElementProperty", KElement))>>)),
        Step("oxidation", Pipeline(<<
            Step("select", ItemSelector("composition_oxid")),
            Step("oxidation_feat", Featurizer("OxidationStates", KOxid))>>))>>)

\* cell 7
pipeline_lr ==
    Pipeline(<<Step("featurize", featurizer), Step("regress", LinearRegression)>>)
\* cell 8
pipeline_rf ==
    Pipeline(<<Step("featurize", featurizer),
               Step("regress", RandomForestRegressor(50, 1))>>)

(***************************************************************************)
(* sklearn.model_selection                                                 *)
(***************************************************************************)
RECURSIVE SortedSeq(_)
SortedSeq(S) ==
    IF S = {} THEN <<>>
    ELSE LET m == CHOOSE x \in S : \A z \in S : x <= z
         IN <<m>> \o SortedSeq(S \ {m})

Min(a, b) == IF a <= b THEN a ELSE b
Take(seq, positions) == [i \in 1..Len(positions) |-> seq[positions[i]]]

\* what a shuffle of n items can give, by the code the stream yields
PermCodes == {0, 1}
Perm(code, n) ==
    [i \in 1..n |-> IF code = 0 THEN n + 1 - i ELSE (i % n) + 1]

Seeded(seed) == [seeded |-> TRUE, seed |-> seed]
Unseeded == [seeded |-> FALSE, seed |-> 0]

\* mutant: RepeatedKFold(n_splits=5, n_repeats=3), no random_state
crossvalidation_unseeded ==
    [kind |-> "RepeatedKFold", n_splits |-> 5, n_repeats |-> 3,
     random_state |-> Unseeded]

\* cell 10
crossvalidation ==
    [kind |-> "RepeatedKFold", n_splits |-> 5, n_repeats |-> 3,
     random_state |-> Seeded(1)]
\* cv=5 for a regressor: KFold(5), no shuffle
KFoldCV(k) ==
    [kind |-> "KFold", n_splits |-> k, n_repeats |-> 1, random_state |-> Unseeded]

\* the stream RandomState(seed) gives: the same on every construction
Stream(seed) == IF seed = 1 THEN rng.kfold ELSE rng.split

\* the shuffles one call of cv.split() can draw: check_random_state makes a
\* new RandomState(seed) per call for an integer random_state, and draws
\* from the global stream for None
SplitDraws(cv) ==
    IF cv.kind = "KFold" THEN {<<>>}
    ELSE IF cv.random_state.seeded
    THEN {SubSeq(Stream(cv.random_state.seed), 1, cv.n_repeats)}
    ELSE [1..cv.n_repeats -> PermCodes]

\* KFold over the indices in the given order: k consecutive test folds, the
\* first n % k one longer; train and test index arrays ascending
KFoldFolds(order, k) ==
    LET n == Len(order)
        base == n \div k
        extra == n % k
        start(f) == (f - 1) * base + Min(f - 1, extra)
        size(f) == base + (IF f <= extra THEN 1 ELSE 0)
        test(f) == {order[i] : i \in (start(f) + 1)..(start(f) + size(f))}
    IN [f \in 1..k |-> [train |-> SortedSeq((1..n) \ test(f)),
                        test |-> SortedSeq(test(f))]]

\* cv.split(X) on n samples
Splits(cv, n, codes) ==
    IF cv.n_splits > n THEN Raise("ValueError", NoneVal)
    ELSE IF cv.kind = "KFold"
    THEN Ok(KFoldFolds([i \in 1..n |-> i], cv.n_splits), NoneVal)
    ELSE Ok(Flatten([r \in 1..cv.n_repeats |->
                        KFoldFolds(Perm(codes[r], n), cv.n_splits)]),
            NoneVal)

\* the dataset row a row of a feature matrix was computed from
RowOf(xrow) == IF xrow = <<>> THEN 0 ELSE xrow[1].row
XIds(Xa, positions) == [i \in 1..Len(positions) |-> RowOf(Xa.rows[positions[i]])]
YIds(yy, positions) == [i \in 1..Len(positions) |-> yy[positions[i]].row]

\* clone(est).set_params(params).fit(X[train], y[train]), scored on test:
\* the estimator, and the rows of X and of y it was fit and scored on
FoldFit(est, params, Xa, yy, fold, k) ==
    [est |-> est, params |-> params, fold |-> k,
     trainX |-> XIds(Xa, fold.train), trainY |-> YIds(yy, fold.train),
     testX |-> XIds(Xa, fold.test), testY |-> YIds(yy, fold.test)]

\* cross_val_score(est, X, y, scoring=, cv=): one score per split, in order
cross_val_score(est, Xa, yy, scoring, cv, codes) ==
    IF NRows(Xa) # Len(yy) THEN Raise("ValueError", NoneVal)
    ELSE LET s == Splits(cv, NRows(Xa), codes)
         IN IF s.tag = "raise" THEN s
            ELSE Ok([k \in 1..Len(s.val) |->
                        [metric |-> scoring,
                         fit |-> FoldFit(est, <<>>, Xa, yy, s.val[k], k)]],
                    NoneVal)

\* mutant: the training part is every row, the test rows among them
train_test_split_overlap(Xa, yy, num, den, code) ==
    IF NRows(Xa) # Len(yy) THEN Raise("ValueError", NoneVal)
    ELSE LET n == NRows(Xa)
             n_test == (n * num + den - 1) \div den
             perm == Perm(code, n)
             te == SubSeq(perm, 1, n_test)
         IN Ok([X_train |-> Array(Take(Xa.rows, perm)), X_test |-> Array(Take(Xa.rows, te)),
                y_train |-> Take(yy, perm), y_test |-> Take(yy, te)],
               NoneVal)

\* train_test_split(X, y, test_size=num/den, random_state=): a permutation
\* of the rows, its first ceil(test_size * n) the test part, the rest the
\* training part, X and y indexed alike
train_test_split(Xa, yy, num, den, code) ==
    IF NRows(Xa) # Len(yy) THEN Raise("ValueError", NoneVal)
    ELSE LET n == NRows(Xa)
             n_test == (n * num + den - 1) \div den
             perm == Perm(code, n)
             te == SubSeq(perm, 1, n_test)
             tr == SubSeq(perm, n_test + 1, n)
         IN Ok([X_train |-> Array(Take(Xa.rows, tr)), X_test |-> Array(Take(Xa.rows, te)),
                y_train |-> Take(yy, tr), y_test |-> Take(yy, te)],
               NoneVal)

\* mutant: candidates paired with splits one to one instead of crossed
CandidateFits_zip(est, candidates, folds, Xa, yy) ==
    [i \in 1..Min(Len(candidates), Len(folds)) |->
        FoldFit(est, <<candidates[i]>>, Xa, yy, folds[i], i)]

\* evaluate_candidates: product(candidate_params, cv.split(X, y)), every
\* candidate on every split, candidate by candidate
CandidateFits(est, candidates, folds, Xa, yy) ==
    Flatten([c \in 1..Len(candidates) |->
                [k \in 1..Len(folds) |->
                    FoldFit(est, <<candidates[c]>>, Xa, yy, folds[k], k)]])

\* BaseSearchCV.fit(X, y): every candidate is fit on every split's training
\* part; the best candidate is then refit on all of X, y
SearchFit(kind, est, candidates, cv, Xa, yy, codes, best) ==
    IF NRows(Xa) # Len(yy) THEN Raise("ValueError", NoneVal)
    ELSE LET n == NRows(Xa)
             s == Splits(cv, n, codes)
             all == [train |-> [i \in 1..n |-> i], test |-> <<>>]
         IN IF s.tag = "raise" THEN s
            ELSE Ok([kind |-> kind, est |-> est, candidates |-> candidates,
                     n_splits |-> Len(s.val),
                     fits |-> CandidateFits(est, candidates, s.val, Xa, yy),
                     best |-> best,
                     refit |-> FoldFit(est, <<candidates[best]>>, Xa, yy, all, 0)],
                    NoneVal)

\* mutant: the pipeline of cell 7, featurizer and regressor, cross-validated
lr_with_featurizer == pipeline_lr

\* cells 11, 12, 14, 15
lr == LinearRegression
rf == RandomForestRegressor(50, 1)
StandardScaler == [kind |-> "StandardScaler"]
pipe ==
    Pipeline(<<Step("scale", StandardScaler),
               Step("regress", RandomForestRegressor(100, 1))>>)
\* param_grid = [{'n_estimators': [10,15,20,25,30,50,100]}]
param_grid == <<10, 15, 20, 25, 30, 50, 100>>
\* RandomizedSearchCV's default n_iter
n_iter == 10
\* param_dist = {'regress__n_estimators': sp_randint(10,150)}: the draws of
\* one search, each 10 or 149 here (all low, half and half, all high)
param_dist ==
    {[i \in 1..n_iter |-> IF i <= k THEN 10 ELSE 149] :
        k \in {0, n_iter \div 2, n_iter}}
\* the candidate a search can find best: which one depends on the scores,
\* which are not computed; the first and the last stand for all
BestChoices(cands) == {1, Len(cands)}

(***************************************************************************)
(* The notebook's statements, in cell order                                *)
(***************************************************************************)
Order ==
    <<"load", "drop_unwanted", "target", "str_to_comp", "comp_to_oxid",
      "fit_lr", "score_lr", "predict_lr", "fit_rf", "score_rf", "predict_rf",
      "transform_X", "cv_lr_mse", "cv_lr_r2", "cv_lr_report",
      "cv_rf_r2", "cv_rf_mse", "cv_rf_report", "split",
      "grid_fit", "grid_report", "grid_test_score",
      "rand_fit", "rand_report", "rand_train_score", "rand_train_predict",
      "rand_test_score", "rand_test_predict">>

Pos(step) == CHOOSE i \in 1..Len(Order) : Order[i] = step
NextStep(step) == IF Pos(step) = Len(Order) THEN "done" ELSE Order[Pos(step) + 1]

\* the dataset's row count in the model
Rows == (MaxRows - 1)..MaxRows

\* the statement completed; the next one runs
Advance(step) ==
    /\ pc' = NextStep(step)
    /\ ran' = Append(ran, step)
    /\ err' = err

\* mutant: the exception is swallowed and the next statement runs
OnError_continue(step, e) ==
    /\ pc' = NextStep(step)
    /\ ran' = Append(ran, step)
    /\ err' = e

\* the statement raised: nothing catches it, the run ends
OnError(step, e) ==
    /\ pc' = "aborted"
    /\ ran' = Append(ran, step)
    /\ err' = e

Stdout(step, texts) ==
    out' = out \o [i \in 1..Len(texts) |-> [step |-> step, text |-> texts[i]]]

NoPipeline == [est |-> NoneVal, model |-> NoneVal, fits |-> <<>>]
NoScores == [lr_mse |-> <<>>, lr_r2 |-> <<>>, rf_r2 |-> <<>>, rf_mse |-> <<>>]

\* cell 2: df = load_elastic_tensor()
Load ==
    /\ pc = "load"
    /\ \E n \in Rows : df' = MkFrame([i \in 1..n |-> i], LoadedColumns)
    /\ Advance("load")
    /\ UNCHANGED <<y, X, pipeline, parts, scores, gs, last, out, rng>>
    /\ UNCHANGED hvars

\* cell 2: df = df.drop(unwanted_columns, axis=1)
DropUnwanted ==
    /\ pc = "drop_unwanted"
    /\ LET r == Drop(df, unwanted_columns)
       IN IF r.tag = "raise"
          THEN OnError("drop_unwanted", r.err) /\ df' = r.arg
          ELSE Advance("drop_unwanted") /\ df' = r.val
    /\ UNCHANGED <<y, X, pipeline, parts, scores, gs, last, out, rng>>
    /\ UNCHANGED hvars

\* cell 3: y = df['K_VRH'].values
Target ==
    /\ pc = "target"
    /\ LET r == GetItem(df, "K_VRH")
       IN IF r.tag = "raise"
          THEN OnError("target", r.err) /\ y' = y /\ df' = r.arg
          ELSE Advance("target") /\ y' = r.val.values /\ df' = r.arg
    /\ UNCHANGED <<X, pipeline, parts, scores, gs, last, out, rng>>
    /\ UNCHANGED hvars

\* cell 4: df = <conversion>.featurize_dataframe(df, col)
Convert(step, conv, col) ==
    /\ pc = step
    /\ LET r == featurize_dataframe(conv, df, col)
       IN IF r.tag = "raise"
          THEN OnError(step, r.err) /\ df' = r.arg
          ELSE Advance(step) /\ df' = r.val
    /\ UNCHANGED <<y, X, pipeline, parts, scores, gs, last, out, rng>>
    /\ UNCHANGED hvars

StrToComp == Convert("str_to_comp", StrToComposition, "formula")
CompToOxid == Convert("comp_to_oxid", CompositionToOxidComposition, "composition")

\* cells 7, 8: pipeline = Pipeline([...]); pipeline.fit(df, y)
PipelineFit(step, p) ==
    /\ pc = step
    /\ LET r == Pipeline_fit(p, df, y)
       IN /\ df' = r.arg
          /\ IF r.tag = "raise"
             THEN /\ OnError(step, r.err)
                  /\ pipeline' = [est |-> p, model |-> NoneVal, fits |-> r.fits]
             ELSE /\ Advance(step)
                  /\ pipeline' = [est |-> p, model |-> r.val, fits |-> r.fits]
    /\ UNCHANGED <<y, X, parts, scores, gs, last, out, rng>>
    /\ UNCHANGED hvars

\* cells 7, 8: the line 'training R2 = ' + str(round(pipeline.score(df, y), 3))
PipelineScore(step) ==
    /\ pc = step
    /\ LET r == Pipeline_score(pipeline.est, pipeline.model, df, y)
       IN /\ df' = r.arg
          /\ IF r.tag = "raise"
             THEN OnError(step, r.err) /\ UNCHANGED <<last, out>>
             ELSE Advance(step) /\ last' = r.val /\ Stdout(step, <<"training R2">>)
    /\ UNCHANGED <<y, X, pipeline, parts, scores, gs, rng>>
    /\ UNCHANGED hvars

\* cells 7, 8: the line 'training RMSE = %.3f' of pipeline.predict(df)
PipelinePredict(step) ==
    /\ pc = step
    /\ LET r == Pipeline_predict(pipeline.est, pipeline.model, df)
       IN /\ df' = r.arg
          /\ IF r.tag = "raise"
             THEN OnError(step, r.err) /\ UNCHANGED <<last, out>>
             ELSE Advance(step) /\ last' = r.val /\ Stdout(step, <<"training RMSE">>)
    /\ UNCHANGED <<y, X, pipeline, parts, scores, gs, rng>>
    /\ UNCHANGED hvars

FitLR == PipelineFit("fit_lr", pipeline_lr)
ScoreLR == PipelineScore("score_lr")
PredictLR == PipelinePredict("predict_lr")
FitRF == PipelineFit("fit_rf", pipeline_rf)
ScoreRF == PipelineScore("score_rf")
PredictRF == PipelinePredict("predict_rf")

\* cell 9: X = featurizer.transform(df)
TransformX ==
    /\ pc = "transform_X"
    /\ LET r == Transform(featurizer, df)
       IN /\ df' = r.arg
          /\ IF r.tag = "raise"
             THEN OnError("transform_X", r.err) /\ X' = X
             ELSE Advance("transform_X") /\ X' = r.val
    /\ UNCHANGED <<y, pipeline, parts, scores, gs, last, out, rng>>
    /\ UNCHANGED hvars

\* cells 11, 12: cross_val_score(est, X, y, scoring=, cv=crossvalidation)
CvScore(step, field, est, scoring) ==
    /\ pc = step
    /\ \E codes \in SplitDraws(crossvalidation) :
         LET r == cross_val_score(est, X, y, scoring, crossvalidation, codes)
         IN IF r.tag = "raise"
            THEN OnError(step, r.err) /\ scores' = scores
            ELSE Advance(step) /\ scores' = [scores EXCEPT ![field] = r.val]
    /\ UNCHANGED <<df, y, X, pipeline, parts, gs, last, out, rng>>
    /\ UNCHANGED hvars

\* cells 11, 12: the three lines of the cross-validation report
CvReport(step) ==
    /\ pc = step
    /\ Advance(step)
    /\ Stdout(step, <<"Cross-validation results:", "mean R2", "mean RMSE">>)
    /\ UNCHANGED <<df, y, X, pipeline, parts, scores, gs, last, rng>>
    /\ UNCHANGED hvars

CvLrMse == CvScore("cv_lr_mse", "lr_mse", lr, "neg_mean_squared_error")
CvLrR2 == CvScore("cv_lr_r2", "lr_r2", lr, "r2")
CvLrReport == CvReport("cv_lr_report")
CvRfR2 == CvScore("cv_rf_r2", "rf_r2", rf, "r2")
CvRfMse == CvScore("cv_rf_mse", "rf_mse", rf, "neg_mean_squared_error")
CvRfReport == CvReport("cv_rf_report")

\* cell 13: train_test_split(X, y, test_size=0.2, random_state=100)
Split ==
    /\ pc = "split"
    /\ LET r == train_test_split(X, y, 1, 5, Stream(100)[1])
       IN IF r.tag = "raise"
          THEN OnError("split", r.err) /\ parts' = parts
          ELSE Advance("split") /\ parts' = r.val
    /\ UNCHANGED <<df, y, X, pipeline, scores, gs, last, out, rng>>
    /\ UNCHANGED hvars

\* a search's fit on X_train, y_train; which candidate scores best is left open
Search(step, kind, est, cands, cv) ==
    /\ pc = step
    /\ \E codes \in SplitDraws(cv), best \in BestChoices(cands) :
         LET r == SearchFit(kind, est, cands, cv, parts.X_train, parts.y_train,
                            codes, best)
         IN IF r.tag = "raise"
            THEN OnError(step, r.err) /\ gs' = gs
            ELSE Advance(step) /\ gs' = r.val
    /\ UNCHANGED <<df, y, X, pipeline, parts, scores, last, out, rng>>
    /\ UNCHANGED hvars

\* cell 14: gs = GridSearchCV(rf, param_grid, n_jobs=4, cv=5); gs.fit(...)
GridFit == Search("grid_fit", "GridSearchCV", rf, param_grid, KFoldCV(5))

\* cell 15: gs = RandomizedSearchCV(pipe, param_dist, cv=crossvalidation,
\* n_jobs=-1); gs.fit(X_train, y_train)
RandFit ==
    \E draws \in param_dist :
        Search("rand_fit", "RandomizedSearchCV", pipe, draws, crossvalidation)

\* the lines that report gs.best_score_ and gs.best_params_
SearchReport(step) ==
    /\ pc = step
    /\ Advance(step)
    /\ Stdout(step, <<"best_score_", "best_params_">>)
    /\ UNCHANGED <<df, y, X, pipeline, parts, scores, gs, last, rng>>
    /\ UNCHANGED hvars

\* gs.score(Xs, ys) or gs.predict(Xs) by the refit best estimator, and the
\* line that reports it
SearchUse(step, kind, Xs, ys, text) ==
    /\ pc = step
    /\ Advance(step)
    /\ last' = [kind |-> kind, model |-> gs.refit,
                X |-> XIds(Xs, [i \in 1..NRows(Xs) |-> i]),
                y |-> YIds(ys, [i \in 1..Len(ys) |-> i])]
    /\ Stdout(step, <<text>>)
    /\ UNCHANGED <<df, y, X, pipeline, parts, scores, gs, rng>>
    /\ UNCHANGED hvars

GridReport == SearchReport("grid_report")
GridTestScore ==
    SearchUse("grid_test_score", "score", parts.X_test, parts.y_test, "test score")
RandReport == SearchReport("rand_report")
RandTrainScore ==
    SearchUse("rand_train_score", "score", parts.X_train, parts.y_train, "training R2")
RandTrainPredict ==
    SearchUse("rand_train_predict", "predict", parts.X_train, parts.y_train, "training RMSE")
RandTestScore ==
    SearchUse("rand_test_score", "score", parts.X_test, parts.y_test, "test R2")
RandTestPredict ==
    SearchUse("rand_test_predict", "predict", parts.X_test, parts.y_test, "test RMSE")

\* the statement about to run raises from inside the library call it makes
StepFails ==
    /\ pc \in Range(Order)
    /\ OnError(pc, "Exception")
    /\ UNCHANGED <<df, y, X, pipeline, parts, scores, gs, last, out, rng>>
    /\ UNCHANGED hvars

HIdle ==
    /\ hD = MkFrame(<<>>, <<>>)
    /\ hPre = MkFrame(<<>>, <<>>)
    /\ hCall = [op |-> "none", est |-> NoneVal]
    /\ hOut = Ok(NoneVal, NoneVal)

Init ==
    /\ pc = "load"
    /\ df = NoneVal
    /\ y = <<>>
    /\ X = NoneVal
    /\ pipeline = NoPipeline
    /\ parts = NoneVal
    /\ scores = NoScores
    /\ gs = NoneVal
    /\ last = NoneVal
    /\ out = <<>>
    /\ err = ""
    /\ ran = <<>>
    /\ rng \in [kfold : [1..3 -> PermCodes], split : [1..1 -> PermCodes]]
    /\ HIdle

Next ==
    \/ Load \/ DropUnwanted \/ Target \/ StrToComp \/ CompToOxid
    \/ FitLR \/ ScoreLR \/ PredictLR \/ FitRF \/ ScoreRF \/ PredictRF
    \/ TransformX
    \/ CvLrMse \/ CvLrR2 \/ CvLrReport \/ CvRfR2 \/ CvRfMse \/ CvRfReport
    \/ Split
    \/ GridFit \/ GridReport \/ GridTestScore
    \/ RandFit \/ RandReport \/ RandTrainScore \/ RandTrainPredict
    \/ RandTestScore \/ RandTestPredict
    \/ StepFails

Spec == Init /\ [][Next]_vars

(***************************************************************************)
(* Adapter harness: the adapters and the feature union on drawn datasets   *)
(***************************************************************************)
HFields == {"structure", "composition", "K_VRH"}

\* sequences without repetition over S of length at most n
SeqsNoRep(S, n) ==
    {s \in UNION {[1..k -> S] : k \in 0..n} : Injective(s)}

HFrames ==
    {MkFrame(index, cols) :
        index \in UNION {SeqsNoRep(1..k, k) \ SeqsNoRep(1..k, k - 1) : k \in 0..HMaxRows},
        cols \in SeqsNoRep(HFields, HMaxCols)}

\* the sub-pipelines a drawn feature union is made of
HSub ==
    {Step("drop", DropExcluded(e)) : e \in SeqsNoRep(HFields, 1)}
    \cup {Step("density", Pipeline(<<
                Step("select", ItemSelector("structure")),
                Step("density_feat", Featurizer("DensityFeatures", KDensity))>>)),
          Step("element", Pipeline(<<
                Step("select", ItemSelector("composition")),
                Step("oxidation_feat", Featurizer("ElementProperty", KElement))>>))}

HUnions == UNION {[1..k -> HSub] : k \in 0..HMaxParts}

HNoCall == [op |-> "none", est |-> NoneVal]

HInit ==
    /\ hD \in HFrames
    /\ hPre = hD
    /\ hCall = HNoCall
    /\ hOut = Ok(NoneVal, NoneVal)

HCallOn(op, est) ==
    LET r == Transform(est, hD)
    IN /\ hCall = HNoCall
       /\ hPre' = hD
       /\ hCall' = [op |-> op, est |-> est]
       /\ hOut' = [tag |-> r.tag, val |-> r.val, err |-> r.err, arg |-> NoneVal,
                    fits |-> <<>>]
       /\ hD' = r.arg

H_DropExcluded ==
    \E e \in SeqsNoRep(HFields, 2) : HCallOn("DropExcluded", DropExcluded(e))

H_ItemSelector ==
    \E f \in HFields : HCallOn("ItemSelector", ItemSelector(f))

H_FeatureUnion ==
    \E tl \in HUnions : HCallOn("FeatureUnion", FeatureUnion(tl))


\* the caller is done with the result; the dataset stays as the call left it
H_Return ==
    /\ hCall # HNoCall
    /\ hCall' = HNoCall
    /\ hOut' = Ok(NoneVal, NoneVal)
    /\ hPre' = hD
    /\ UNCHANGED hD

HNext == H_DropExcluded \/ H_ItemSelector \/ H_FeatureUnion \/ H_Return

\* the notebook is not running while the adapters are exercised
NbIdle ==
    /\ pc = "idle"
    /\ df = NoneVal
    /\ y = <<>>
    /\ X = NoneVal
    /\ pipeline = NoPipeline
    /\ parts = NoneVal
    /\ scores = NoScores
    /\ gs = NoneVal
    /\ last = NoneVal
    /\ out = <<>>
    /\ err = ""
    /\ ran = <<>>
    /\ rng = [kfold |-> <<0, 0, 0>>, split |-> <<0>>]

InitAdapters == NbIdle /\ HInit
NextAdapters == HNext /\ UNCHANGED nbvars
SpecAdapters == InitAdapters /\ [][NextAdapters]_vars

(***************************************************************************)
(* Adapter properties                                                      *)
(***************************************************************************)
HExcluded == Range(hCall.est.excluded)
HPreFields == Range(hPre.cols)
HDropCalled == hCall.op = "DropExcluded"
HSelectCalled == hCall.op = "ItemSelector"
HUnionCalled == hCall.op = "FeatureUnion"

\* the frame is D without the fields in E: same index, remaining columns in
\* D's order, every remaining cell the one D holds
IsDropOf(fr, D, E) ==
    /\ fr.kind = "frame"
    /\ Range(fr.cols) = Range(D.cols) \ (E \cap Range(D.cols))
    /\ fr.cols = Filter(D.cols, Range(D.cols) \ E)
    /\ fr.index = D.index
    /\ \A f \in Range(fr.cols) :
          /\ Len(fr.data[f]) = Len(D.index)
          /\ \A i \in 1..Len(D.index) : fr.data[f][i] = Cell(f, D.index[i])

C2_SelectRoundTrip ==
    (HSelectCalled /\ hCall.est.label \in HPreFields) =>
        /\ hOut.tag = "ok"
        /\ hOut.val.kind = "series"
        /\ LET f == hCall.est.label
               fr == ToFrame(hOut.val)
           IN /\ fr.cols = <<f>>
              /\ fr.index = hPre.index
              /\ Len(fr.data[f]) = Len(hPre.index)
              /\ fr.data[f] = hPre.data[f]
              /\ \A i \in 1..Len(hPre.index) : fr.data[f][i] = Cell(f, hPre.index[i])

\* the second of two columns has been selected from a two-row dataset whose
\* index is not in ascending order
C2_Witness ==
    /\ HSelectCalled
    /\ hOut.tag = "ok"
    /\ Len(hPre.cols) = 2
    /\ hCall.est.label = hPre.cols[2]
    /\ hPre.index = <<2, 1>>

\* C3: for every dataset D and field f not in D, ItemSelector.transform
\* raises the missing-field error (pandas' KeyError), returns no value, and
\* leaves D unchanged.
C3_SelectMissing ==
    (HSelectCalled /\ hCall.est.label \notin HPreFields) =>
        /\ hOut.tag = "raise"
        /\ hOut.err = "KeyError"
        /\ hOut.val = NoneVal
        /\ hD = hPre

\* a field has been selected from a non-empty dataset that lacks it
C3_Witness ==
    /\ HSelectCalled
    /\ hCall.est.label \notin HPreFields
    /\ Len(hPre.cols) = 2
    /\ Len(hPre.index) = 2
    /\ hOut.tag = "raise"

\* the columns sub-pipeline st produces for row i of D
ExpectedBlock(st, D, i) ==
    IF st.est.kind = "DropExcluded"
    THEN LET cs == Filter(D.cols, Range(D.cols) \ Range(st.est.excluded))
         IN [c \in 1..Len(cs) |-> D.data[cs[c]][i]]
    ELSE LET sel == st.est.steps[1].est
             ft == st.est.steps[2].est
         IN [j \in 1..ft.k |-> FeatCell(ft.name, j, D.data[sel.label][i])]

ExpectedWidth(st, D) ==
    IF st.est.kind = "DropExcluded"
    THEN Cardinality(Range(D.cols) \ Range(st.est.excluded))
    ELSE st.est.steps[2].est.k

\* C4: for every ordered list of sub-pipelines producing k1..kn columns on
\* a dataset of r rows, FeatureUnion.transform returns r rows in the
\* dataset's row order and k1+...+kn columns, the column blocks in the
\* declared sub-pipeline order.
C4_FeatureUnion ==
    (HUnionCalled /\ hOut.tag = "ok") =>
        LET tl == hCall.est.transformer_list
            rows == hOut.val.rows
        IN /\ hOut.val.kind = "array"
           /\ Len(rows) = Len(hPre.index)
           /\ \A i \in 1..Len(rows) :
                /\ Len(rows[i]) = SumSeq([t \in 1..Len(tl) |-> ExpectedWidth(tl[t], hPre)])
                /\ rows[i] = Flatten([t \in 1..Len(tl) |-> ExpectedBlock(tl[t], hPre, i)])
                /\ \A c \in 1..Len(rows[i]) : rows[i][c].row = hPre.index[i]

\* a union of two different sub-pipelines, the first a featurizing one of
\* two columns and the second the drop, has produced three columns for two rows
C4_Witness ==
    /\ HUnionCalled
    /\ hOut.tag = "ok"
    /\ Len(hCall.est.transformer_list) = 2
    /\ hCall.est.transformer_list[1].est.kind = "Pipeline"
    /\ hCall.est.transformer_list[2].est.kind = "DropExcluded"
    /\ Len(hPre.index) = 2
    /\ Len(hOut.val.rows[1]) = KDensity + 1

(***************************************************************************)
(* Notebook properties                                                     *)
(***************************************************************************)
Running == pc \in Range(Order) \cup {"done"}
Executed(step) == step \in Range(ran) /\ (err = "" \/ ran[Len(ran)] # step)

\* featurizer.transform(D), stated column block by column block
FeatureRows(D) ==
    [i \in 1..Len(D.index) |->
        Flatten([t \in 1..Len(featurizer.transformer_list) |->
                    ExpectedBlock(featurizer.transformer_list[t], D, i)])]

\* the estimators fit by one pipeline.fit, in the order the stages are declared
StageOrder(p) ==
    <<"DropExcluded", "ItemSelector", "Featurizer", "ItemSelector", "Featurizer",
      "ItemSelector", "Featurizer", p.steps[2].est.kind>>

\* C5: the pipeline applies its stages in declared order, each stage's
\* output the next one's input, every stage's fit receives the same target
\* vector, and fit / score / predict of the pipeline on df are the final
\* estimator's fit / score / predict on featurizer.transform(df).
C5_PipelineComposes ==
    /\ (pipeline.model # NoneVal /\ Running) =>
          /\ pipeline.model.est = pipeline.est.steps[2].est
          /\ pipeline.model.X = FeatureRows(df)
          /\ pipeline.model.y = y
          /\ [i \in 1..Len(pipeline.fits) |-> pipeline.fits[i].est] = StageOrder(pipeline.est)
          /\ \A i \in 1..Len(pipeline.fits) : pipeline.fits[i].y = y
    /\ pc \in {"predict_lr", "predict_rf"} =>
          last = [kind |-> "score", model |-> pipeline.model,
                  X |-> FeatureRows(df), y |-> y]
    /\ pc \in {"fit_rf", "transform_X"} =>
          last = [kind |-> "predict", model |-> pipeline.model,
                  X |-> FeatureRows(df), y |-> <<>>]

\* the random forest pipeline has been fit, scored and used to predict
C5_Witness ==
    /\ pc = "transform_X"
    /\ last.kind = "predict"
    /\ pipeline.model.est.kind = "RandomForestRegressor"
    /\ Len(pipeline.model.X) = MaxRows
    /\ Len(pipeline.model.X[1]) = 1 + KDensity + KElement + KOxid

AdapterSteps ==
    {"fit_lr", "score_lr", "predict_lr", "fit_rf", "score_rf", "predict_rf",
     "transform_X"}

\* C6: no fit, transform, predict or score call on the featurizer or on a
\* pipeline containing it changes df: same fields, same rows in the same
\* order, same values, the excluded fields still there.
C6_DatasetNotMutated ==
    [][(pc \in AdapterSteps) => (df' = df)]_vars

\* both pipelines and featurizer.transform have run on df, which still has
\* the excluded fields
C6_Witness ==
    /\ pc = "cv_lr_mse"
    /\ X.kind = "array"
    /\ Range(excluded) \subseteq Range(df.cols)
    /\ Len(df.index) = MaxRows

\* the fields a statement reads from df
Reads(step) ==
    CASE step = "target" -> {"K_VRH"}
      [] step = "str_to_comp" -> {"formula"}
      [] step = "comp_to_oxid" -> {"composition"}
      [] step \in AdapterSteps -> {"structure", "composition", "composition_oxid"}
      [] OTHER -> {}

\* C7: whenever a statement is about to read a field of df the field is
\* there: K_VRH at the target extraction, formula and composition at the two
\* conversions, structure, composition and composition_oxid at every run of
\* the featurizer; the drop of unwanted columns removes none of them and no
\* statement ends in a KeyError.
C7_FieldsPresentBeforeUse ==
    /\ (pc \in Range(Order) /\ Reads(pc) # {}) => Reads(pc) \subseteq Range(df.cols)
    /\ err # "KeyError"
    /\ Range(unwanted_columns) \cap UNION {Reads(st) : st \in Range(Order)} = {}

\* every reading statement up to featurizer.transform(df) has run
C7_Witness ==
    /\ pc = "cv_lr_mse"
    /\ err = ""
    /\ AdapterSteps \cup {"target", "str_to_comp", "comp_to_oxid"} \subseteq Range(ran)

\* C8: once a statement has raised, the run is over: the statements executed
\* are a prefix of the notebook's order ending with the failing one, which
\* ran once; no statement is enabled afterwards; and every line printed
\* comes from a statement before the failing one.
C8_FailureAborts ==
    /\ ran = SubSeq(Order, 1, Len(ran))
    /\ (err # "") <=> (pc = "aborted")
    /\ err # "" =>
          /\ ran # <<>>
          /\ \A l \in 1..Len(out) : Pos(out[l].step) < Len(ran)
          /\ ~ENABLED Next

\* the scoring statement of the second pipeline raised after the two lines
\* of the first pipeline were printed
C8_Witness ==
    /\ pc = "aborted"
    /\ err = "Exception"
    /\ ran[Len(ran)] = "score_rf"
    /\ Len(out) = 2

\* how many fits of fs used split k, and how many used parameters ps
FitsOfFold(fs, k) == Cardinality({i \in 1..Len(fs) : fs[i].fold = k})
FitsOfParams(fs, ps) == Cardinality({i \in 1..Len(fs) : fs[i].params = ps})

\* C9: GridSearchCV evaluates exactly |grid| x folds candidate fits (7 x 5)
\* and RandomizedSearchCV exactly n_iter x folds (the default n_iter, 10, x
\* the 5 x 3 splits of the RepeatedKFold), every candidate on every split.
C9_SearchFitCounts ==
    /\ gs.kind = "GridSearchCV" =>
          /\ gs.n_splits = 5
          /\ Len(gs.candidates) = 7
          /\ Len(gs.fits) = Len(param_grid) * gs.n_splits
          /\ \A k \in 1..gs.n_splits : FitsOfFold(gs.fits, k) = Len(param_grid)
          /\ \A c \in 1..Len(param_grid) :
                FitsOfParams(gs.fits, <<param_grid[c]>>) = gs.n_splits
    /\ gs.kind = "RandomizedSearchCV" =>
          /\ gs.n_splits = crossvalidation.n_splits * crossvalidation.n_repeats
          /\ Len(gs.candidates) = n_iter
          /\ Len(gs.fits) = n_iter * gs.n_splits
          /\ \A k \in 1..gs.n_splits : FitsOfFold(gs.fits, k) = n_iter
          /\ \A c \in 1..n_iter :
                FitsOfParams(gs.fits, <<gs.candidates[c]>>) =
                    gs.n_splits * Cardinality({d \in 1..n_iter :
                                                  gs.candidates[d] = gs.candidates[c]})

\* the randomized search has been fit, after the grid search, with two
\* different parameter values among its draws
C9_Witness ==
    /\ gs.kind = "RandomizedSearchCV"
    /\ "grid_fit" \in Range(ran)
    /\ Len(gs.fits) = 150
    /\ gs.candidates[1] # gs.candidates[n_iter]

SameFits(a, b) ==
    /\ Len(a) = Len(b)
    /\ \A k \in 1..Len(a) : a[k].fit = b[k].fit
SameFolds(a, b) ==
    /\ Len(a) = Len(b)
    /\ \A k \in 1..Len(a) :
          /\ a[k].fit.trainX = b[k].fit.trainX
          /\ a[k].fit.testX = b[k].fit.testX
          /\ a[k].fit.trainY = b[k].fit.trainY
          /\ a[k].fit.testY = b[k].fit.testY

\* C10: cross_val_score calls with the same X, y, estimator and the seeded
\* RepeatedKFold give the same fold assignment and, fold by fold, the same
\* fit to score, in the same order and number (15); the calls for the other
\* estimator and the other metric use the same fold assignment.
C10_CrossValDeterministic ==
    /\ Executed("cv_lr_r2") =>
          /\ Len(scores.lr_mse) = crossvalidation.n_splits * crossvalidation.n_repeats
          /\ SameFits(scores.lr_mse, scores.lr_r2)
    /\ Executed("cv_rf_r2") => SameFolds(scores.lr_mse, scores.rf_r2)
    /\ Executed("cv_rf_mse") => SameFits(scores.rf_r2, scores.rf_mse)

\* all four calls have run, and the repeats of the splitter differ
C10_Witness ==
    /\ Executed("cv_rf_mse")
    /\ Len(scores.rf_mse) = 15
    /\ scores.lr_mse[1].fit.testX # scores.lr_mse[6].fit.testX
    /\ scores.lr_mse[1].fit.testX # scores.lr_mse[2].fit.testX

\* whether an estimator is, or contains as a stage, a part of the feature
\* extraction: an adapter, a featurizer, or a union of them
RECURSIVE HasFeaturizer(_)
HasFeaturizer(est) ==
    CASE est.kind \in {"DropExcluded", "ItemSelector", "Featurizer", "FeatureUnion"} ->
            TRUE
      [] est.kind = "Pipeline" ->
            \E i \in 1..Len(est.steps) : HasFeaturizer(est.steps[i].est)
      [] OTHER -> FALSE

CvSteps == {"cv_lr_mse", "cv_lr_r2", "cv_rf_r2", "cv_rf_mse", "grid_fit", "rand_fit"}
Searched == gs.kind \in {"GridSearchCV", "RandomizedSearchCV"}

\* the fits made so far by cross_val_score, and by the search in gs
CvFits ==
    UNION {{scores[f][k].fit : k \in 1..Len(scores[f])} : f \in DOMAIN scores}
SearchFits == IF Searched THEN Range(gs.fits) \cup {gs.refit} ELSE {}

\* the dataset rows the rows of a feature matrix were computed from
RowIds(Xa) == {RowOf(Xa.rows[i]) : i \in 1..NRows(Xa)}

\* C11: feature extraction is never embedded with the estimator when
\* cross-validating: featurizer.transform(df) comes before every
\* cross_val_score and search call in the notebook and X is its result; every
\* estimator such a call fits has no adapter, featurizer or feature-union
\* stage; cross_val_score splits the rows of X and a search the rows of
\* X_train, themselves rows of X; and each fold's fit is given the target
\* values of exactly the rows of its own training part, none of the fold's
\* test part.
C11_NoFeaturizerInCV ==
    /\ \A st \in CvSteps : Pos("transform_X") < Pos(st)
    /\ (CvFits \cup SearchFits # {}) =>
          /\ Executed("transform_X")
          /\ X = Array(FeatureRows(df))
    /\ \A f \in CvFits \cup SearchFits :
          /\ ~HasFeaturizer(f.est)
          /\ f.trainY = f.trainX
          /\ f.testY = f.testX
          /\ Range(f.trainY) \cap Range(f.testX) = {}
    /\ \A f \in CvFits : Range(f.trainX) \cup Range(f.testX) = RowIds(X)
    /\ Searched =>
          /\ Range(parts.X_train.rows) \subseteq Range(X.rows)
          /\ \A f \in SearchFits :
                Range(f.trainX) \cup Range(f.testX) = RowIds(parts.X_train)

\* the four cross_val_score calls and both searches have run, on estimators
\* of one stage (lr, rf) and of two (pipe), with folds that leave rows out
C11_Witness ==
    /\ pc = "done"
    /\ gs.kind = "RandomizedSearchCV"
    /\ gs.est.kind = "Pipeline"
    /\ Len(scores.lr_mse) = 15 /\ Len(scores.rf_mse) = 15
    /\ \E f \in CvFits : f.testX # <<>> /\ Len(f.trainX) < NRows(X)
    /\ \E f \in SearchFits : f.testX # <<>> /\ Len(f.trainX) < NRows(parts.X_train)

SplitDone == parts # NoneVal
TrainIds == RowIds(parts.X_train)
TestIds == RowIds(parts.X_test)

\* the rows of a part are rows of (X, y), each with its own target value
PairedWithXy(Xp, yp) ==
    /\ NRows(Xp) = Len(yp)
    /\ \A i \in 1..NRows(Xp) :
          \E p \in 1..NRows(X) : X.rows[p] = Xp.rows[i] /\ y[p] = yp[i]

\* the statements that use the search in gs, and those given the test part
SearchUses ==
    {"grid_test_score", "rand_train_score", "rand_train_predict",
     "rand_test_score", "rand_test_predict"}
TestUses == {"grid_test_score", "rand_test_score", "rand_test_predict"}
SearchOf(step) == IF step = "grid_test_score" THEN "grid_fit" ELSE "rand_fit"

\* C12: train_test_split leaves a training part and a test part that are
\* disjoint and together are every row of (X, y), each feature row with its
\* own target value; no candidate fit and no refit of GridSearchCV or
\* RandomizedSearchCV is given a test row, as feature row or as target
\* value, to fit or to validate on, and the refit is on the whole training
\* part; the test part is given only to score / predict of the refit model
\* of a search that has already been fit, and the other uses of a search
\* read no test row.
C12_HoldOut ==
    /\ SplitDone =>
          /\ TrainIds \cap TestIds = {}
          /\ TrainIds \cup TestIds = RowIds(X)
          /\ NRows(parts.X_train) + NRows(parts.X_test) = NRows(X)
          /\ TestIds # {}
          /\ PairedWithXy(parts.X_train, parts.y_train)
          /\ PairedWithXy(parts.X_test, parts.y_test)
    /\ Searched =>
          /\ \A f \in SearchFits :
                (Range(f.trainX) \cup Range(f.trainY) \cup
                 Range(f.testX) \cup Range(f.testY)) \cap TestIds = {}
          /\ Range(gs.refit.trainX) = TrainIds
          /\ gs.refit.trainY = gs.refit.trainX
    /\ \A st \in TestUses :
          /\ Pos("split") < Pos(SearchOf(st))
          /\ Pos(SearchOf(st)) < Pos(st)
    /\ (ran # <<>> /\ err = "" /\ ran[Len(ran)] \in SearchUses) =>
          LET st == ran[Len(ran)]
          IN /\ SearchOf(st) \in Range(ran)
             /\ last.model = gs.refit
             /\ IF st \in TestUses
                THEN Range(last.X) = TestIds /\ Range(last.y) = TestIds
                ELSE Range(last.X) \cap TestIds = {} /\ Range(last.y) \cap TestIds = {}

\* the last statement has predicted on the test part with the refit model
\* of the randomized search, whose fits used the other rows
C12_Witness ==
    /\ pc = "done"
    /\ err = ""
    /\ NRows(X) = MaxRows
    /\ last.kind = "predict"
    /\ Range(last.X) = TestIds
    /\ Cardinality(TestIds) >= 2
    /\ Cardinality(TrainIds) > Cardinality(TestIds)
    /\ Len(gs.fits) = 150

\* the column a cell of a feature matrix belongs to: the dataset field of a
\* cell passed through, the featurizer and feature number of a generated one
Label(cell) ==
    [name |-> IF cell.feat = "raw" THEN cell.src.field ELSE cell.feat, j |-> cell.j]
Labels(row) == [c \in 1..Len(row) |-> Label(row[c])]

\* the dataset field a cell was read or computed from
RECURSIVE Origin(_)
Origin(cell) == IF cell.feat = "raw" THEN cell.src.field ELSE Origin(cell.src)

Generated(name, k) == [j \in 1..k |-> [name |-> name, j |-> j]]

\* the columns of the feature matrix of D: the fields the exclusion adapter
\* leaves, in D's order, then the density, element and oxidation columns
ExpectedLabels(D) ==
    LET left == Filter(D.cols, Range(D.cols) \ Range(excluded))
    IN [c \in 1..Len(left) |-> [name |-> left[c], j |-> 0]]
       \o Generated("DensityFeatures", KDensity)
       \o Generated("ElementProperty", KElement)
       \o Generated("OxidationStates", KOxid)

\* the feature matrices of the run: the one each pipeline's regressor was
\* fit on, the one it last scored or predicted on, and the standalone X
FeatureMatrices ==
    (IF pipeline.model.kind = "fitted" THEN {pipeline.model.X} ELSE {})
    \cup (IF /\ ran # <<>>
             /\ err = ""
             /\ ran[Len(ran)] \in {"score_lr", "predict_lr", "score_rf", "predict_rf"}
          THEN {last.X} ELSE {})
    \cup (IF X.kind = "array" THEN {X.rows} ELSE {})

\* C13: no target leakage into the features: in the matrix the regressor of
\* either pipeline is fit, scored or predicts on, and in the standalone X,
\* no column is the target field K_VRH or any other field of the excluded
\* list, and no cell is computed from K_VRH; the columns are exactly the
\* dataset fields the exclusion adapter leaves followed by the columns
\* generated by the density, element and oxidation sub-pipelines.
C13_NoTargetLeakage ==
    \A M \in FeatureMatrices :
        \A i \in 1..Len(M) :
            /\ Labels(M[i]) = ExpectedLabels(df)
            /\ \A c \in 1..Len(M[i]) :
                  /\ Label(M[i][c]).name # "K_VRH"
                  /\ Label(M[i][c]).name \notin Range(excluded)
                  /\ Origin(M[i][c]) # "K_VRH"
                  /\ M[i][c].row = i

\* both pipelines have been fit and X computed while df still holds K_VRH;
\* the one dataset field left in the matrix comes first
C13_Witness ==
    /\ X.kind = "array"
    /\ pipeline.model.kind = "fitted"
    /\ pipeline.model.est.kind = "RandomForestRegressor"
    /\ "K_VRH" \in Range(df.cols)
    /\ y # <<>>
    /\ Len(X.rows) = MaxRows
    /\ Label(X.rows[1][1]) = [name |-> "space_group", j |-> 0]
    /\ Len(X.rows[1]) = 1 + KDensity + KElement + KOxid
=============================================================================
